---------------------------- MODULE Spec2Model ----------------------------
(***************************************************************************)
(* A model of perema: the program entry point (main.go) with its daily     *)
(* birthday job, and the controllers of contacts, relationships and        *)
(* reminders.  A handler is modelled statement by statement on the         *)
(* database, so that the statements of requests served at the same time    *)
(* interleave.                                                             *)
(*                                                                         *)
(* Text is modelled as a sequence of one-character strings, so that        *)
(* strings.Split, strconv.Atoi and SQL LIKE are computed character by      *)
(* character.  Go's int is modelled as 8 little-endian bytes (two's        *)
(* complement), so that arithmetic wraps as it does in a 64-bit build.     *)
(***************************************************************************)
EXTENDS Integers, Sequences, FiniteSets, TLC

VARIABLES
    pc,               \* main: position of the main goroutine
    dbOpens,          \* environment: whether gorm.Open succeeds
    jobScheduled,     \* main: the birthday job is registered with the scheduler
    schedulerRunning, \* main: the scheduler has been started
    httpListening,    \* main: r.Run has been reached
    today,            \* scheduler: the date of the latest job run (NoDate before)
    mails,            \* scheduler: the mails sent by the latest job run
    contacts,         \* database: table contacts, in primary-key order
    relationships,    \* database: table relationships, in insertion order
    reminders,        \* database: table reminders, in insertion order
    nextContactID,    \* database: next autoincrement key of contacts
    nextReminderID,   \* database: next autoincrement key of reminders
    req,              \* http: per handler, the request being served
    locals,           \* http: per handler, the local variables and position
    resp              \* http: per handler, the response written

mainVars == <<pc, dbOpens, jobScheduled, schedulerRunning, httpListening, today, mails>>
dbVars   == <<contacts, relationships, reminders, nextContactID, nextReminderID>>
httpVars == <<req, locals, resp>>
vars     == <<pc, dbOpens, jobScheduled, schedulerRunning, httpListening, today, mails,
              contacts, relationships, reminders, nextContactID, nextReminderID,
              req, locals, resp>>

----------------------------------------------------------------------------
(* Bounds of the model *)

\* The largest key db.Create gives a contact, and the largest number of rows
\* of the table the program is started on.
MaxContacts == 2

\* The largest number of rows of table relationships.
MaxRelationships == 2

\* The largest key db.Create gives a reminder.
MaxReminders == 2

----------------------------------------------------------------------------
(* Text *)

Range(s) == { s[i] : i \in 1..Len(s) }

EmptyStr == << >>

\* A parameter that the request does not carry.
Absent == <<"<absent>">>

s_Ann    == <<"A","n","n">>
s_Lee    == <<"L","e","e">>
s_Bob    == <<"B","o","b">>
s_Ray    == <<"R","a","y">>
s_Bobby  == <<"B","o","b","b","y">>
s_Cy     == <<"C","y">>
s_Fox    == <<"F","o","x">>
s_family == <<"f","a","m","i","l","y">>
s_work   == <<"w","o","r","k">>
s_fam    == <<"f","a","m">>

----------------------------------------------------------------------------
(* strings, slices *)

\* strings.Split(s, sep) for a one-character separator: the pieces between the
\* separators; the empty text gives one empty piece.
RECURSIVE SplitFrom(_, _, _, _)
SplitFrom(s, sep, i, cur) ==
    IF i > Len(s) THEN <<cur>>
    ELSE IF s[i] = sep THEN <<cur>> \o SplitFrom(s, sep, i + 1, EmptyStr)
    ELSE SplitFrom(s, sep, i + 1, Append(cur, s[i]))

Split(s, sep) == SplitFrom(s, sep, 1, EmptyStr)

\* strings.Join(parts, sep)
RECURSIVE Join(_, _)
Join(parts, sep) ==
    IF Len(parts) = 0 THEN EmptyStr
    ELSE IF Len(parts) = 1 THEN parts[1]
    ELSE parts[1] \o sep \o Join(Tail(parts), sep)

\* slices.Contains
Contains(list, x) == \E i \in 1..Len(list) : list[i] = x

UpperAlpha == <<"A","B","C","D","E","F","G","H","I","J","K","L","M",
                "N","O","P","Q","R","S","T","U","V","W","X","Y","Z">>
LowerAlpha == <<"a","b","c","d","e","f","g","h","i","j","k","l","m",
                "n","o","p","q","r","s","t","u","v","w","x","y","z">>

\* ASCII case folding, as SQLite's LIKE applies it.
ToLower(ch) ==
    IF \E i \in 1..Len(UpperAlpha) : UpperAlpha[i] = ch
    THEN LowerAlpha[CHOOSE i \in 1..Len(UpperAlpha) : UpperAlpha[i] = ch]
    ELSE ch

\* SQLite's  text LIKE pattern : % matches any run of characters, _ matches any
\* one character, every other character matches itself without regard to ASCII
\* case.
RECURSIVE LikeFrom(_, _, _, _)
LikeFrom(p, i, t, j) ==
    IF i > Len(p) THEN j > Len(t)
    ELSE IF p[i] = "%"
         THEN LikeFrom(p, i + 1, t, j) \/ (j <= Len(t) /\ LikeFrom(p, i, t, j + 1))
         ELSE /\ j <= Len(t)
              /\ (p[i] = "_" \/ ToLower(p[i]) = ToLower(t[j]))
              /\ LikeFrom(p, i + 1, t, j + 1)

Like(text, pattern) == LikeFrom(pattern, 1, text, 1)

----------------------------------------------------------------------------
(* int: 8 bytes, least significant first, two's complement *)

\* The number of bytes of Go's int in a 64-bit build.
IntBytes == 8

ByteBase == 2^8

IntZero == [i \in 1..IntBytes |-> 0]

\* The int of a small natural number (below 2^24).
IntOf(n) == [i \in 1..IntBytes |-> IF i <= 3 THEN (n \div ByteBase^(i - 1)) % ByteBase ELSE 0]

\* math.MaxInt64 and math.MinInt64.
IntMax == [i \in 1..IntBytes |-> IF i = IntBytes THEN 127 ELSE 255]
IntMin == [i \in 1..IntBytes |-> IF i = IntBytes THEN 128 ELSE 0]

IsNegative(x) == x[IntBytes] >= 128

\* x*k + a for small k and a: IntBytes bytes followed by the carry out of them.
RECURSIVE MulAddFrom(_, _, _, _)
MulAddFrom(x, k, carry, i) ==
    IF i > IntBytes THEN <<carry>>
    ELSE LET v == x[i] * k + carry
         IN  <<v % ByteBase>> \o MulAddFrom(x, k, v \div ByteBase, i + 1)

MulAdd(x, k, a) == MulAddFrom(x, k, a, 1)

\* a - b, wrapping.
RECURSIVE SubFrom(_, _, _, _)
SubFrom(a, b, borrow, i) ==
    IF i > IntBytes THEN << >>
    ELSE LET v == a[i] - b[i] - borrow
         IN  <<v % ByteBase>> \o SubFrom(a, b, IF v < 0 THEN 1 ELSE 0, i + 1)

IntSub(a, b) == SubFrom(a, b, 0, 1)

IntNeg(a) == IntSub(IntZero, a)

\* The sum of a[i]*b[k+1-i] for i in 1..k: column k of the long multiplication.
RECURSIVE Column(_, _, _, _)
Column(a, b, k, i) ==
    IF i > k THEN 0 ELSE a[i] * b[k + 1 - i] + Column(a, b, k, i + 1)

RECURSIVE MulFrom(_, _, _, _)
MulFrom(a, b, carry, k) ==
    IF k > IntBytes THEN << >>
    ELSE LET v == Column(a, b, k, 1) + carry
         IN  <<v % ByteBase>> \o MulFrom(a, b, v \div ByteBase, k + 1)

\* a * b, wrapping: the low IntBytes bytes of the product.
IntMul(a, b) == MulFrom(a, b, 0, 1)

\* Unsigned comparison, from the most significant byte down.
RECURSIVE UnsignedLessFrom(_, _, _)
UnsignedLessFrom(a, b, i) ==
    IF i < 1 THEN FALSE
    ELSE IF a[i] # b[i] THEN a[i] < b[i]
    ELSE UnsignedLessFrom(a, b, i - 1)

\* a < b on int.
IntLess(a, b) ==
    IF IsNegative(a) # IsNegative(b) THEN IsNegative(a)
    ELSE UnsignedLessFrom(a, b, IntBytes)

\* Whether an int is a natural number below 2^16, and that number.
IsSmall(x) == \A i \in 3..IntBytes : x[i] = 0
SmallValue(x) == x[1] + ByteBase * x[2]

Digits == <<"0","1","2","3","4","5","6","7","8","9">>

IsDigit(ch) == \E i \in 1..Len(Digits) : Digits[i] = ch
DigitValue(ch) == (CHOOSE i \in 1..Len(Digits) : Digits[i] = ch) - 1

\* strconv.ParseUint(s, 10, 64): the digits read left to right; a character that
\* is no digit is a syntax error (value 0), a value of 2^64 or more a range
\* error.
RECURSIVE ParseUintFrom(_, _, _)
ParseUintFrom(s, i, n) ==
    IF i > Len(s) THEN [n |-> n, err |-> "nil"]
    ELSE IF ~IsDigit(s[i]) THEN [n |-> IntZero, err |-> "syntax"]
    ELSE LET r == MulAdd(n, 10, DigitValue(s[i]))
         IN  IF r[IntBytes + 1] # 0
             THEN [n |-> IntZero, err |-> "range"]
             ELSE ParseUintFrom(s, i + 1, SubSeq(r, 1, IntBytes))

ParseUint(s) ==
    IF s = EmptyStr THEN [n |-> IntZero, err |-> "syntax"] ELSE ParseUintFrom(s, 1, IntZero)

\* strconv.Atoi(s): an optional sign and decimal digits.  A syntax error gives 0;
\* a value out of the range of int gives the nearest end of the range.  (The
\* short-input fast path of Atoi computes the same values.)
Atoi(s) ==
    IF s = EmptyStr THEN [n |-> IntZero, err |-> "syntax"]
    ELSE LET neg  == s[1] = "-"
             body == IF s[1] = "+" \/ s[1] = "-" THEN Tail(s) ELSE s
             u    == ParseUint(body)
         IN  IF u.err = "syntax" THEN [n |-> IntZero, err |-> "syntax"]
             ELSE IF ~neg /\ (u.err = "range" \/ IsNegative(u.n))
                  THEN [n |-> IntMax, err |-> "range"]
             ELSE IF neg /\ (u.err = "range" \/ (IsNegative(u.n) /\ u.n # IntMin))
                  THEN [n |-> IntMin, err |-> "range"]
             ELSE [n |-> IF neg THEN IntNeg(u.n) ELSE u.n, err |-> "nil"]

----------------------------------------------------------------------------
(* Dates and the sample rows *)

Date(y, m, d) == [y |-> y, m |-> m, d |-> d]

\* time.Time{}: January 1, year 1.
zeroTime == Date(1, 1, 1)

NoDate == Date(0, 0, 0)

\* The days on which the scheduler may fire the job in this model.
Dates == { Date(2024, 5, 1), Date(2024, 5, 2), Date(2025, 5, 1) }

Person(fn, ln, nick, bd, circles) ==
    [firstname |-> fn, lastname |-> ln, nickname |-> nick, birthday |-> bd,
     circles |-> circles]

\* The rows a database may hold (without their keys).
People ==
    { Person(s_Ann, s_Lee, EmptyStr, Date(1990, 5, 1), <<s_family>>),
      Person(s_Bob, s_Ray, s_Bobby, Date(2024, 5, 1), <<s_work, s_family>>),
      Person(s_Cy, s_Fox, EmptyStr, zeroTime, << >>) }

WithID(p, id) ==
    [ID |-> id, firstname |-> p.firstname, lastname |-> p.lastname,
     nickname |-> p.nickname, birthday |-> p.birthday, circles |-> p.circles]

\* The databases the program may be started on: up to MaxContacts rows with the
\* keys 1, 2, ... in order.
SeedTables ==
    UNION { { [i \in 1..n |-> WithID(f[i], i)] : f \in [1..n -> People] }
            : n \in 0..MaxContacts }

----------------------------------------------------------------------------
(* main.go: the birthday job *)

\* t.Format("2006-01-02"): year, month and day; it is injective on dates, and is
\* kept as the triple of the three numbers the layout prints.
FormatDate(t) == <<t.y, t.m, t.d>>

\* t.Format("2006"): the year alone.
FormatYear(t) == <<t.y>>

\* The rows of Where("birthday = ?", time.Now().Format("2006-01-02")).Find:
\* the column is compared with the whole formatted date, year included.
BirthdayRows(now) ==
    SelectSeq(contacts, LAMBDA c : FormatDate(c.birthday) = FormatDate(now))

\* The age line of one mail.
BirthdayAge(c, now) ==
    IF FormatYear(c.birthday) # FormatYear(zeroTime)
    THEN [known |-> TRUE, years |-> now.y - c.birthday.y]
    ELSE [known |-> FALSE, years |-> 0]

\* The nickname line of one mail.
BirthdayNick(c) == IF c.nickname = EmptyStr THEN c.firstname ELSE c.nickname

\* sendBirthdayMail's arguments for one row; "to" records the row the mail is for.
BirthdayMail(c, now) ==
    [to |-> c.ID, nick |-> BirthdayNick(c),
     person |-> c.firstname \o <<" ">> \o c.lastname, age |-> BirthdayAge(c, now)]

\* sendBirthdayReminders: one mail per row found, in order.
sendBirthdayReminders(now) ==
    LET rows == BirthdayRows(now)
    IN  [i \in 1..Len(rows) |-> BirthdayMail(rows[i], now)]

----------------------------------------------------------------------------
(* main.go: main *)

\* Whether anything calls s.Stop(): nothing in the program does, so the channel
\* StartBlocking waits on is never signalled.
StopCalled == FALSE

\* gorm.Open: panic when the database cannot be opened.
OpenDB ==
    /\ pc = "start"
    /\ pc' = IF dbOpens THEN "opened" ELSE "panicked"
    /\ UNCHANGED <<dbOpens, jobScheduled, schedulerRunning, httpListening, today, mails>>
    /\ UNCHANGED dbVars /\ UNCHANGED httpVars

\* db.AutoMigrate
AutoMigrate ==
    /\ pc = "opened"
    /\ pc' = "migrated"
    /\ UNCHANGED <<dbOpens, jobScheduled, schedulerRunning, httpListening, today, mails>>
    /\ UNCHANGED dbVars /\ UNCHANGED httpVars

\* s.Every(1).Day().At("08:00").Do(sendBirthdayReminders, db)
ScheduleJob ==
    /\ pc = "migrated"
    /\ pc' = "scheduled"
    /\ jobScheduled' = TRUE
    /\ UNCHANGED <<dbOpens, schedulerRunning, httpListening, today, mails>>
    /\ UNCHANGED dbVars /\ UNCHANGED httpVars

\* s.StartBlocking(): starts the scheduler and blocks the calling goroutine.
StartBlocking ==
    /\ pc = "scheduled"
    /\ pc' = "blocking"
    /\ schedulerRunning' = TRUE
    /\ UNCHANGED <<dbOpens, jobScheduled, httpListening, today, mails>>
    /\ UNCHANGED dbVars /\ UNCHANGED httpVars

\* Inside StartBlocking: the scheduler fires the job on the next day at 08:00,
\* unless it has been stopped, in which case StartBlocking returns and main goes
\* on to gin.Default(), r.Static and r.Run.
SchedulerLoop ==
    /\ pc = "blocking"
    /\ IF StopCalled
       THEN /\ pc' = "serving"
            /\ httpListening' = TRUE
            /\ UNCHANGED <<today, mails>>
       ELSE /\ \E now \in Dates :
                 /\ today' = now
                 /\ mails' = sendBirthdayReminders(now)
            /\ UNCHANGED <<pc, httpListening>>
    /\ UNCHANGED <<dbOpens, jobScheduled, schedulerRunning>>
    /\ UNCHANGED dbVars /\ UNCHANGED httpVars

MainNext == OpenDB \/ AutoMigrate \/ ScheduleJob \/ StartBlocking \/ SchedulerLoop

----------------------------------------------------------------------------
(* controllers: requests *)

s_ID            == <<"I","D">>
s_firstname     == <<"f","i","r","s","t","n","a","m","e">>
s_lastname      == <<"l","a","s","t","n","a","m","e">>
s_nickname      == <<"n","i","c","k","n","a","m","e">>
s_birthday      == <<"b","i","r","t","h","d","a","y">>
s_circles       == <<"c","i","r","c","l","e","s">>
s_notes         == <<"n","o","t","e","s">>
s_activities    == <<"a","c","t","i","v","i","t","i","e","s">>
s_relationships == <<"r","e","l","a","t","i","o","n","s","h","i","p","s">>
s_reminders     == <<"r","e","m","i","n","d","e","r","s">>

q_1   == <<"1">>
q_2   == <<"2">>
q_4   == <<"4">>
q_25  == <<"2","5">>
q_101 == <<"1","0","1">>
q_1x  == <<"1","x">>
q_minus1 == <<"-","1">>
\* 2^62 + 1
q_big == <<"4","6","1","1","6","8","6","0","1","8","4","2","7","3","8","7","9","0","5">>
\* "firstname,ID,password,circles"
q_fieldsMixed == <<"f","i","r","s","t","n","a","m","e",",","I","D",",",
                   "p","a","s","s","w","o","r","d",",","c","i","r","c","l","e","s">>
\* "password"
q_fieldsUnknown == <<"p","a","s","s","w","o","r","d">>
\* "notes,bogus,reminders"
q_includesMixed == <<"n","o","t","e","s",",","b","o","g","u","s",",",
                     "r","e","m","i","n","d","e","r","s">>
\* "Notes,activities,"
q_includesCase == <<"N","o","t","e","s",",","a","c","t","i","v","i","t","i","e","s",",">>
q_an == <<"a","n">>
\* "_o": a search text that holds a LIKE wildcard.
q_wild == <<"_","o">>

\* The values the query parameters of a listing request take in this model.
PageParams     == { Absent, q_2, q_1x, q_minus1, q_big }
LimitParams    == { Absent, q_1, q_4, q_101 }
FieldsParams   == { Absent, q_fieldsMixed, q_fieldsUnknown }
IncludesParams == { Absent, q_includesMixed, q_includesCase }
SearchParams   == { Absent, q_an, q_wild }
CircleParams   == { Absent, s_family, s_fam }

\* c.Query(key): the empty text when the parameter is absent.
Query(v) == IF v = Absent THEN EmptyStr ELSE v

\* c.DefaultQuery(key, def)
DefaultQuery(v, def) == IF v = Absent THEN def ELSE v

----------------------------------------------------------------------------
(* gin: the requests being served *)

\* The handlers of the controllers that this model serves.
Handlers ==
    { "GetContacts", "GetAllContacts", "CreateContact", "UpdateContact",
      "DeleteContact", "AddProfilePictureToContact", "AddRelationshipToContact",
      "CreateRelationship", "CreateReminder", "UpdateReminder", "DeleteReminder" }

\* The handlers that only read the database.
Listings == { "GetContacts", "GetAllContacts" }

\* gin serves every request in a goroutine of its own; this model has requests
\* of different handlers served at the same time, as many as there are
\* goroutines here.
Goroutines == { "g1", "g2" }

\* No request of the handler is being served.
Idle == [handler |-> "none"]

\* The local variables of a handler that is not running.
NoLocals == [at |-> "idle"]

\* No response has been written.
NoResponse == [status |-> 0]

\* The handlers with a request accepted and not yet returned from.
InFlight == { h \in Handlers : req[h] # Idle }

\* A request of handler h is accepted.  Two listings write nothing and do not
\* affect each other, so one listing is served at a time.
Accepts(h) ==
    /\ req[h] = Idle
    /\ Cardinality(InFlight) < Cardinality(Goroutines)
    /\ h \in Listings => InFlight \cap Listings = {}

\* Handler h is at position at.
At(h, at) == locals[h].at = at

\* Handler h takes a request r, runs to the position of l and, when a is a
\* response, writes it.
Serve(h, r, l, a) ==
    /\ req' = [req EXCEPT ![h] = r]
    /\ locals' = [locals EXCEPT ![h] = l]
    /\ resp' = [resp EXCEPT ![h] = a]

\* Handler h goes on to the position of l and, when a is a response, writes it.
Proceed(h, l, a) ==
    /\ req' = req
    /\ locals' = [locals EXCEPT ![h] = l]
    /\ resp' = [resp EXCEPT ![h] = a]

\* The local variables of a handler that has written its response; failed
\* names the database statement whose failure decided the response.
Done == [at |-> "done", failed |-> "none"]
Failed(statement) == [at |-> "done", failed |-> statement]
After(statement, fails) == IF fails THEN Failed(statement) ELSE Done

\* A handler has written its response and returns; its goroutine ends.
Return ==
    \E h \in Handlers :
        /\ resp[h] # NoResponse
        /\ req' = [req EXCEPT ![h] = Idle]
        /\ locals' = [locals EXCEPT ![h] = NoLocals]
        /\ resp' = [resp EXCEPT ![h] = NoResponse]
        /\ UNCHANGED dbVars
        /\ UNCHANGED mainVars

----------------------------------------------------------------------------
(* gorm *)

\* relationship.ContactID == nil; keys start at 1.
NilID == 0

\* db.First(&contact, id): whether the row with that key is stored.
HasContact(id) == \E i \in 1..Len(contacts) : contacts[i].ID = id

\* The row of a table with a key.
RowByID(rows, id) == rows[CHOOSE i \in 1..Len(rows) : rows[i].ID = id]

\* db.Save(&row) of a row with a key: UPDATE of the row with that key and, when
\* no row has it, INSERT ... ON CONFLICT DO UPDATE; the table stays in key
\* order.
Upsert(rows, row) ==
    SelectSeq(rows, LAMBDA r : r.ID < row.ID) \o <<row>> \o
    SelectSeq(rows, LAMBDA r : r.ID > row.ID)

\* "1=1"
q_1eq1 == <<"1","=","1">>

\* The value of a text used as the SQL of a WHERE clause.  The texts of this
\* model's requests are comparisons of two numbers, n=m, or no SQL at all.
SQLWhere(text) ==
    LET parts == Split(text, "=")
    IN  IF /\ Len(parts) = 2
           /\ ParseUint(parts[1]).err = "nil"
           /\ ParseUint(parts[2]).err = "nil"
        THEN IF ParseUint(parts[1]).n = ParseUint(parts[2]).n THEN "true" ELSE "false"
        ELSE "error"

\* The rows a text condition selects from a table: a text that strconv.Atoi
\* accepts names the primary key; any other text is the WHERE clause itself.
\* err: the statement is no SQL.
InlineCondition(rows, text) ==
    LET id == Atoi(text)
    IN  IF id.err = "nil"
        THEN [err  |-> FALSE,
              rows |-> SelectSeq(rows,
                                 LAMBDA c : IsSmall(id.n) /\ c.ID = SmallValue(id.n))]
        ELSE [err  |-> SQLWhere(text) = "error",
              rows |-> IF SQLWhere(text) = "true" THEN rows ELSE << >>]

\* db.First(&row, text) with the text of a URL parameter: the first row the
\* condition selects.
FirstByText(rows, text, fails) ==
    LET cond == InlineCondition(rows, text)
    IN  IF fails \/ cond.err THEN [result |-> "error"]
        ELSE IF Len(cond.rows) = 0 THEN [result |-> "not found"]
        ELSE [result |-> "found", row |-> cond.rows[1]]

\* db.First(&contact, id) with a number: the contact with that key.
First(id, fails) ==
    IF fails THEN [result |-> "error"]
    ELSE IF HasContact(id) THEN [result |-> "found", row |-> RowByID(contacts, id)]
    ELSE [result |-> "not found"]

\* db.Delete(&row, text) with the text of a URL parameter: the rows the
\* condition selects are removed.  The statement is an error when the database
\* fails or the text is no SQL; removing no row is not.
DeleteRows(rows, text, fails) ==
    LET cond == InlineCondition(rows, text)
    IN  IF fails \/ cond.err
        THEN [err |-> TRUE, rows |-> rows]
        ELSE [err  |-> FALSE,
              rows |-> SelectSeq(rows, LAMBDA c : ~Contains(cond.rows, c))]
----------------------------------------------------------------------------
(* backend/controllers: GetContacts *)

\* page after lines 40 and 42-44.
PageOf(raw) ==
    LET page == Atoi(DefaultQuery(raw, q_1)).n
    IN  IF IntLess(page, IntOf(1)) THEN IntOf(1) ELSE page

\* limit after lines 41 and 45-47.
LimitOf(raw) ==
    LET limit == Atoi(DefaultQuery(raw, q_25)).n
    IN  IF IntLess(limit, IntOf(1)) \/ IntLess(IntOf(100), limit) THEN IntOf(25) ELSE limit

\* offset := (page - 1) * limit
OffsetOf(page, limit) == IntMul(IntSub(page, IntOf(1)), limit)

allowedFields ==
    << <<"f","i","r","s","t","n","a","m","e">>,
       <<"l","a","s","t","n","a","m","e">>,
       <<"n","i","c","k","n","a","m","e">>,
       <<"g","e","n","d","e","r">>,
       <<"e","m","a","i","l">>,
       <<"p","h","o","n","e">>,
       <<"b","i","r","t","h","d","a","y">>,
       <<"a","d","d","r","e","s","s">>,
       <<"h","o","w","_","w","e","_","m","e","t">>,
       <<"f","o","o","d","_","p","r","e","f","e","r","e","n","c","e">>,
       <<"w","o","r","k","_","i","n","f","o","r","m","a","t","i","o","n">>,
       <<"c","o","n","t","a","c","t","_","i","n","f","o","r","m","a","t","i","o","n">>,
       <<"c","i","r","c","l","e","s">> >>

\* The loop without its validation: every requested name is kept.
ValidFields_NoCheck(list) == list

\* The loop of lines 56-60: the requested names that are allowed, in order.
ValidFields(list) == SelectSeq(list, LAMBDA field : Contains(allowedFields, field))

\* selectedFields after lines 52-63.
SelectedFields(fields) ==
    IF fields # EmptyStr
    THEN <<s_ID>> \o ValidFields(Split(fields, ","))
    ELSE allowedFields

\* The keys of relationshipMap.
RelationshipKeys == { s_notes, s_activities, s_relationships, s_reminders }

\* The keys of relationshipMap that are true after lines 72-77.
RelationshipMap(includes) ==
    { rel \in Range(Split(includes, ",")) : rel \in RelationshipKeys }

\* The relations of models.Contact: gorm knows a relation by the name of its Go
\* field, the name GetContact hands to Preload (line 126).
s_Notes         == <<"N","o","t","e","s">>
s_Activities    == <<"A","c","t","i","v","i","t","i","e","s">>
s_Relationships == <<"R","e","l","a","t","i","o","n","s","h","i","p","s">>
s_Reminders     == <<"R","e","m","i","n","d","e","r","s">>
ContactRelations == { s_Notes, s_Activities, s_Relationships, s_Reminders }

\* query.Preload(name) for every name, then Find: a name that is no relation of
\* the model, letter for letter, makes Find return the error "unsupported
\* relations".
PreloadError(names) == \E name \in names : name \notin ContactRelations

\* The text of column circles: the tags as a JSON array of strings.
RECURSIVE QuoteAll(_)
QuoteAll(tags) ==
    IF Len(tags) = 0 THEN << >>
    ELSE << <<"\"">> \o tags[1] \o <<"\"">> >> \o QuoteAll(Tail(tags))

CirclesColumn(tags) == <<"[">> \o Join(QuoteAll(tags), <<",">>) \o <<"]">>

\* "%" + term + "%"
LikeParam(term) == <<"%">> \o term \o <<"%">>

\* Where("firstname LIKE ? OR lastname LIKE ? OR nickname LIKE ?", ...)
SearchWhere(c, searchTerm) ==
    \/ Like(c.firstname, LikeParam(searchTerm))
    \/ Like(c.lastname, LikeParam(searchTerm))
    \/ Like(c.nickname, LikeParam(searchTerm))

\* Where("circles LIKE ?", "%"+circle+"%")
CircleWhere(c, circle) == Like(CirclesColumn(c.circles), LikeParam(circle))

\* The rows that pass the Where clauses of lines 87-94.
Matching(rows, searchTerm, circle) ==
    SelectSeq(rows, LAMBDA c :
        /\ (searchTerm # EmptyStr => SearchWhere(c, searchTerm))
        /\ (circle # EmptyStr => CircleWhere(c, circle)))

Min(a, b) == IF a <= b THEN a ELSE b

\* Limit(limit).Offset(offset) on the rows of a query: an OFFSET clause is built
\* only for an offset above 0.
LimitOffset(rows, limit, offset) ==
    LET skip == IF IsNegative(offset) \/ offset = IntZero THEN 0
                ELSE IF IsSmall(offset) THEN Min(SmallValue(offset), Len(rows))
                ELSE Len(rows)
        take == IF IsNegative(limit) THEN Len(rows)
                ELSE IF IsSmall(limit) THEN SmallValue(limit)
                ELSE Len(rows)
    IN  SubSeq(rows, skip + 1, Min(Len(rows), skip + take))

\* One row as Select(selectedFields) fills it: a column that is not selected
\* keeps the zero value of its type.
Selected(c, selectedFields) ==
    [ID        |-> IF Contains(selectedFields, s_ID) THEN c.ID ELSE 0,
     firstname |-> IF Contains(selectedFields, s_firstname) THEN c.firstname ELSE EmptyStr,
     lastname  |-> IF Contains(selectedFields, s_lastname) THEN c.lastname ELSE EmptyStr,
     nickname  |-> IF Contains(selectedFields, s_nickname) THEN c.nickname ELSE EmptyStr,
     birthday  |-> IF Contains(selectedFields, s_birthday) THEN c.birthday ELSE zeroTime,
     circles   |-> IF Contains(selectedFields, s_circles) THEN c.circles ELSE << >>]

\* The listing requests of this model: requests that vary the paging, requests
\* that vary the selection, and requests that vary the filters.
ListingRequest(page, limit, fields, includes, search, circle) ==
    [page |-> page, limit |-> limit, fields |-> fields, includes |-> includes,
     search |-> search, circle |-> circle]

ListingRequests ==
    { ListingRequest(page, limit, Absent, Absent, Absent, Absent) :
          page \in PageParams, limit \in LimitParams } \cup
    { ListingRequest(Absent, Absent, fields, includes, Absent, Absent) :
          fields \in FieldsParams, includes \in IncludesParams } \cup
    { ListingRequest(page, limit, Absent, Absent, search, circle) :
          page \in {Absent}, limit \in {Absent, q_1},
          search \in SearchParams, circle \in CircleParams } \cup
    { ListingRequest(q_2, q_1, Absent, Absent, q_wild, s_family) }

\* What GetContacts hands to the query builder (lines 39-101).
ContactsQuery(r) ==
    LET page  == PageOf(r.page)
        limit == LimitOf(r.limit)
    IN  [page            |-> page,
         limit           |-> limit,
         offset          |-> OffsetOf(page, limit),
         selectedFields  |-> SelectedFields(Query(r.fields)),
         preloads        |-> RelationshipMap(Query(r.includes)),
         preloadNames    |-> RelationshipMap(Query(r.includes)),
         searchTerm      |-> Query(r.search),
         circle          |-> Query(r.circle)]

\* The rows query.Find reads (lines 80-104).
FoundRows(q) ==
    LimitOffset(Matching(contacts, q.searchTerm, q.circle), q.limit, q.offset)

\* The local variables of a listing: the query, the rows the Find read with the
\* relations it loaded for them, whether a statement failed.
ListingLocals(q, at, found, failed) ==
    q @@ [at |-> at, found |-> found, failed |-> failed,
          preloaded |-> IF failed = "none" THEN q.preloadNames ELSE {}]

\* The body of a listing's answer 200 (lines 114-119): the rows as Select
\* filled them, the total, the page and the limit.
ContactsResponse(q, found, total) ==
    [status   |-> 200,
     contacts |-> [i \in 1..Len(found) |-> Selected(found[i], q.selectedFields)],
     total    |-> total,
     page     |-> q.page,
     limit    |-> q.limit]

\* The answer 500 of a handler.
InternalServerError == [status |-> 500]

\* GetContacts up to query.Find (lines 36-107): the request is parsed, the
\* query built and run; when it fails the answer is 500.  The keys of
\* relationshipMap go to Preload as they are (lines 97-101), so Find has read
\* the rows and returns an error when a relationship is included.
GetContacts ==
    \E r \in ListingRequests, fails \in BOOLEAN :
        LET q == ContactsQuery(r)
        IN  /\ Accepts("GetContacts")
            /\ IF fails
               THEN Serve("GetContacts", r, ListingLocals(q, "done", << >>, "find"),
                          InternalServerError)
               ELSE IF PreloadError(q.preloadNames)
               THEN Serve("GetContacts", r,
                          ListingLocals(q, "done", FoundRows(q), "preload"),
                          InternalServerError)
               ELSE Serve("GetContacts", r, ListingLocals(q, "count", FoundRows(q), "none"),
                          NoResponse)
            /\ UNCHANGED dbVars
            /\ UNCHANGED mainVars

\* GetContacts from countQuery.Count to the answer (lines 109-119): the error
\* of the Count is not looked at, and total keeps its zero value when it fails.
GetContactsCount ==
    \E fails \in BOOLEAN :
        LET q == locals["GetContacts"]
        IN  /\ At("GetContacts", "count")
            /\ Proceed("GetContacts",
                       [q EXCEPT !.at = "done", !.failed = IF fails THEN "count" ELSE "none"],
                       ContactsResponse(q, q.found, IF fails THEN 0 ELSE Len(contacts)))
            /\ UNCHANGED dbVars
            /\ UNCHANGED mainVars

----------------------------------------------------------------------------
(* controllers: GetAllContacts *)

s_id == <<"i","d">>

\* The listing requests of the older handler in this model.
AllContactsRequest(page, limit, fields, includes) ==
    [page |-> page, limit |-> limit, fields |-> fields, includes |-> includes]

AllContactsRequests ==
    { AllContactsRequest(q_2, q_1, Absent, Absent),
      AllContactsRequest(Absent, q_101, Absent, Absent) } \cup
    { AllContactsRequest(Absent, Absent, fields, Absent) :
          fields \in {Absent, s_firstname, q_fieldsMixed} } \cup
    { AllContactsRequest(Absent, Absent, Absent, q_includesMixed) }

\* limit after lines 71 and 75-77: no upper end.
AllLimitOf(raw) ==
    LET limit == Atoi(DefaultQuery(raw, q_25)).n
    IN  IF IntLess(limit, IntOf(1)) THEN IntOf(25) ELSE limit

\* The keys of relationshipMap in GetAllContacts.
AllRelationshipKeys == { s_notes, s_activities }

\* The keys of relationshipMap that are true after lines 97-101.
AllRelationshipMap(includes) ==
    { rel \in Range(Split(includes, ",")) : rel \in AllRelationshipKeys }

\* The names GetAllContacts hands to Preload (lines 113-119).
AllPreloadNames(keys) ==
    (IF s_notes \in keys THEN {s_Notes} ELSE {}) \cup
    (IF s_activities \in keys THEN {s_Activities} ELSE {})

\* A text in lower case.
Lower(text) == [i \in 1..Len(text) |-> ToLower(text[i])]

\* Whether SQLite knows a name as a column of table contacts: names are
\* compared without regard to case.
IsContactColumn(name) ==
    \/ Lower(name) = s_id
    \/ Contains(allowedFields, Lower(name))

\* What GetAllContacts hands to the query builder (lines 69-119).  The fields
\* parameter goes to Select as it is, its items joined again: selectError tells
\* whether the statement names something that is not a column.
AllContactsQuery(r) ==
    LET page   == PageOf(r.page)
        limit  == AllLimitOf(r.limit)
        fields == Query(r.fields)
        items  == Split(fields, ",")
    IN  [page           |-> page,
         limit          |-> limit,
         offset         |-> OffsetOf(page, limit),
         selectedFields |-> IF fields = EmptyStr THEN <<s_ID>> \o allowedFields ELSE items,
         selectError    |-> /\ fields # EmptyStr
                            /\ \E i \in 1..Len(items) : ~IsContactColumn(items[i]),
         preloads       |-> AllRelationshipMap(Query(r.includes)),
         preloadNames   |-> AllPreloadNames(AllRelationshipMap(Query(r.includes))),
         searchTerm     |-> EmptyStr,
         circle         |-> EmptyStr]

\* GetAllContacts up to query.Find (lines 66-125).
GetAllContacts ==
    \E r \in AllContactsRequests, fails \in BOOLEAN :
        LET q == AllContactsQuery(r)
        IN  /\ Accepts("GetAllContacts")
            /\ IF fails \/ q.selectError \/ PreloadError(q.preloadNames)
               THEN Serve("GetAllContacts", r, ListingLocals(q, "done", << >>, "find"),
                          InternalServerError)
               ELSE Serve("GetAllContacts", r,
                          ListingLocals(q, "count", FoundRows(q), "none"), NoResponse)
            /\ UNCHANGED dbVars
            /\ UNCHANGED mainVars

\* GetAllContacts from the Count to the answer (lines 127-137).
GetAllContactsCount ==
    \E fails \in BOOLEAN :
        LET q == locals["GetAllContacts"]
        IN  /\ At("GetAllContacts", "count")
            /\ Proceed("GetAllContacts",
                       [q EXCEPT !.at = "done", !.failed = IF fails THEN "count" ELSE "none"],
                       ContactsResponse(q, q.found, IF fails THEN 0 ELSE Len(contacts)))
            /\ UNCHANGED dbVars
            /\ UNCHANGED mainVars

----------------------------------------------------------------------------
(* backend/controllers: CreateContact, UpdateContact, DeleteContact *)

\* The request bodies of CreateContact and UpdateContact: one that does not
\* bind, and bodies with the fields of a person.
ContactBodies ==
    { [binds |-> FALSE] } \cup
    { [binds |-> TRUE, person |-> p] :
          p \in { Person(s_Ann, s_Lee, EmptyStr, Date(1990, 5, 1), <<s_family>>),
                  Person(s_Bob, s_Ray, s_Bobby, Date(2024, 5, 1), <<s_work, s_family>>) } }

\* The answer of a handler with a status alone.
Status(code) == [status |-> code]

\* The status CreateContact answers with (lines 15-34).
CreateContactStatus(body, fails) ==
    IF ~body.binds THEN 400 ELSE IF fails THEN 500 ELSE 200

\* CreateContact (lines 15-34): the body is bound and db.Create inserts the row
\* with the next key.
CreateContact ==
    \E body \in ContactBodies, fails \in BOOLEAN :
        LET status == CreateContactStatus(body, fails)
        IN  /\ Accepts("CreateContact")
            /\ status = 200 => nextContactID <= MaxContacts
            /\ Serve("CreateContact", [body |-> body],
                     After("create", body.binds /\ fails), Status(status))
            /\ contacts' = IF status = 200
                           THEN Append(contacts, WithID(body.person, nextContactID))
                           ELSE contacts
            /\ nextContactID' = IF status = 200 THEN nextContactID + 1 ELSE nextContactID
            /\ UNCHANGED <<relationships, reminders, nextReminderID>>
            /\ UNCHANGED mainVars

\* The :id parameters of the requests that name a contact.
ContactIDParams == { q_1, q_2, q_1x, q_1eq1 }

\* UpdateContact up to the binding (lines 133-145): db.First with the text of
\* :id, any error of which answers 404, and the body bound over the row read.
UpdateContact ==
    \E idParam \in ContactIDParams, body \in ContactBodies, fails \in BOOLEAN :
        LET contact == FirstByText(contacts, idParam, fails)
        IN  /\ Accepts("UpdateContact")
            /\ IF contact.result # "found"
               THEN Serve("UpdateContact", [id |-> idParam, body |-> body],
                          After("first", fails), Status(404))
               ELSE IF ~body.binds
               THEN Serve("UpdateContact", [id |-> idParam, body |-> body], Done, Status(400))
               ELSE Serve("UpdateContact", [id |-> idParam, body |-> body],
                          [at |-> "save", contact |-> WithID(body.person, contact.row.ID)],
                          NoResponse)
            /\ UNCHANGED dbVars
            /\ UNCHANGED mainVars

\* UpdateContact from db.Save to the answer (lines 147-148): the error of the
\* Save is not looked at.
UpdateContactSave ==
    \E fails \in BOOLEAN :
        /\ At("UpdateContact", "save")
        /\ Proceed("UpdateContact", After("save", fails), Status(200))
        /\ contacts' = IF fails THEN contacts
                       ELSE Upsert(contacts, locals["UpdateContact"].contact)
        /\ UNCHANGED <<relationships, reminders, nextContactID, nextReminderID>>
        /\ UNCHANGED mainVars

\* The status DeleteContact answers with (lines 151-160).
DeleteContactStatus(idParam, fails) ==
    IF DeleteRows(contacts, idParam, fails).err THEN 404 ELSE 200

\* DeleteContact (lines 151-160).
DeleteContact ==
    \E idParam \in ContactIDParams, fails \in BOOLEAN :
        /\ Accepts("DeleteContact")
        /\ Serve("DeleteContact", [id |-> idParam], After("delete", fails),
                 Status(DeleteContactStatus(idParam, fails)))
        /\ contacts' = DeleteRows(contacts, idParam, fails).rows
        /\ UNCHANGED <<relationships, reminders, nextContactID, nextReminderID>>
        /\ UNCHANGED mainVars

----------------------------------------------------------------------------
(* controllers: AddProfilePictureToContact *)

\* What happens to the upload of a request: there is no file "photo", the
\* directory cannot be made, the base name of the file holds "..", the file
\* cannot be saved, or all goes well.
Uploads == { "ok", "no file", "mkdir fails", "dots", "save fails" }

\* The status the handler answers with before its db.Save (lines 181-230), 0
\* when it gets there.
ProfilePictureStatus(idParam, upload, fails) ==
    LET id == Atoi(idParam)
    IN  IF id.err # "nil" THEN 400
        ELSE LET contact == IF IsSmall(id.n) THEN First(SmallValue(id.n), fails)
                            ELSE First(NilID, fails)
             IN  IF contact.result = "not found" THEN 404
                 ELSE IF contact.result = "error" THEN 500
                 ELSE IF upload = "no file" THEN 400
                 ELSE IF upload = "mkdir fails" THEN 500
                 ELSE IF upload = "dots" THEN 400
                 ELSE IF upload = "save fails" THEN 500
                 ELSE 0

\* AddProfilePictureToContact up to the saved file (lines 181-230).
AddProfilePictureToContact ==
    \E idParam \in {q_1, q_1x}, upload \in Uploads, fails \in BOOLEAN :
        LET status == ProfilePictureStatus(idParam, upload, fails)
            r      == [id |-> idParam, upload |-> upload]
        IN  /\ Accepts("AddProfilePictureToContact")
            /\ IF status # 0
               THEN Serve("AddProfilePictureToContact", r,
                          After("first", status = 500 /\ fails), Status(status))
               ELSE Serve("AddProfilePictureToContact", r,
                          [at |-> "save",
                           contact |-> First(SmallValue(Atoi(idParam).n), FALSE).row],
                          NoResponse)
            /\ UNCHANGED dbVars
            /\ UNCHANGED mainVars

\* AddProfilePictureToContact from db.Save to the answer (lines 232-239): the
\* row read is written back with its photo.
AddProfilePictureSave ==
    \E fails \in BOOLEAN :
        /\ At("AddProfilePictureToContact", "save")
        /\ Proceed("AddProfilePictureToContact", After("save", fails),
                   Status(IF fails THEN 500 ELSE 200))
        /\ contacts' = IF fails THEN contacts
                       ELSE Upsert(contacts, locals["AddProfilePictureToContact"].contact)
        /\ UNCHANGED <<relationships, reminders, nextContactID, nextReminderID>>
        /\ UNCHANGED mainVars

----------------------------------------------------------------------------
(* controllers: AddRelationshipToContact, CreateRelationship *)

\* The :id parameters and the request bodies of this model.  A body that binds
\* carries a ContactID (or none) and a name.
IDParams == { q_1, q_1x }
RelationshipBodies ==
    { [binds |-> FALSE, ContactID |-> NilID, Name |-> "sibling"] } \cup
    { [binds |-> TRUE, ContactID |-> id, Name |-> "sibling"] : id \in {NilID, 2} }

\* db.First(&contact, contactID) with the number strconv.Atoi gave: no contact
\* has a key beyond the small numbers.
FirstByInt(n, fails) ==
    IF IsSmall(n) THEN First(SmallValue(n), fails) ELSE First(NilID, fails)

\* The status AddRelationshipToContact answers with before it looks at the
\* ContactID of the body (lines 242-269), 0 when it gets there.
AddRelationshipStatus(idParam, body, fails) ==
    LET id == Atoi(idParam)
    IN  IF id.err # "nil" THEN 400
        ELSE LET contact == FirstByInt(id.n, fails)
             IN  IF contact.result = "not found" THEN 404
                 ELSE IF contact.result = "error" THEN 500
                 ELSE IF ~body.binds THEN 400
                 ELSE 0

\* The row of table relationships for a relationship of a contact.
NewRelationship(owner, body) ==
    [owner |-> owner, ContactID |-> body.ContactID, Name |-> body.Name]

\* AddRelationshipToContact up to the binding of the body (lines 242-269).
AddRelationshipToContact ==
    \E idParam \in IDParams, body \in RelationshipBodies, fails \in BOOLEAN :
        LET status == AddRelationshipStatus(idParam, body, fails)
            r      == [id |-> idParam, body |-> body]
        IN  /\ Accepts("AddRelationshipToContact")
            /\ IF status # 0
               THEN Serve("AddRelationshipToContact", r,
                          After("first", status = 500), Status(status))
               ELSE Serve("AddRelationshipToContact", r,
                          [at |-> IF body.ContactID # NilID THEN "related" ELSE "save",
                           contact |-> FirstByInt(Atoi(idParam).n, FALSE).row],
                          NoResponse)
            /\ UNCHANGED dbVars
            /\ UNCHANGED mainVars

\* The lookup of the related contact (lines 272-283): made when the body gives
\* a ContactID.
RelatedLookup(body, fails) == First(body.ContactID, fails).result

\* AddRelationshipToContact at the lookup of the related contact (lines
\* 272-283).
AddRelationshipRelated ==
    \E fails \in BOOLEAN :
        LET h       == "AddRelationshipToContact"
            related == RelatedLookup(req[h].body, fails)
        IN  /\ At(h, "related")
            /\ IF related = "not found" THEN Proceed(h, Done, Status(404))
               ELSE IF related = "error" THEN Proceed(h, Failed("related first"), Status(500))
               ELSE Proceed(h, [locals[h] EXCEPT !.at = "save"], NoResponse)
            /\ UNCHANGED dbVars
            /\ UNCHANGED mainVars

\* AddRelationshipToContact from db.Save to the answer (lines 285-294): the
\* contact read at line 255 is written back and the relationship is inserted
\* for it.
AddRelationshipSave ==
    \E fails \in BOOLEAN :
        LET h       == "AddRelationshipToContact"
            contact == locals[h].contact
        IN  /\ At(h, "save")
            /\ ~fails => Len(relationships) < MaxRelationships
            /\ Proceed(h, After("save", fails), Status(IF fails THEN 500 ELSE 200))
            /\ contacts' = IF fails THEN contacts ELSE Upsert(contacts, contact)
            /\ relationships' =
                   IF fails THEN relationships
                   ELSE Append(relationships, NewRelationship(contact.ID, req[h].body))
            /\ UNCHANGED <<reminders, nextContactID, nextReminderID>>
            /\ UNCHANGED mainVars

\* CreateRelationship up to the lookup of the contact (part_000, lines 84-101):
\* a body that does not bind and a ContactID that db.First does not find are
\* both answered 400.
CreateRelationship ==
    \E body \in RelationshipBodies, fails \in BOOLEAN :
        LET h      == "CreateRelationship"
            lookup == IF body.binds /\ body.ContactID # NilID
                      THEN First(body.ContactID, fails).result ELSE "found"
        IN  /\ Accepts(h)
            /\ IF ~body.binds \/ lookup # "found"
               THEN Serve(h, [body |-> body], After("first", lookup = "error"), Status(400))
               ELSE Serve(h, [body |-> body], [at |-> "create"], NoResponse)
            /\ UNCHANGED dbVars
            /\ UNCHANGED mainVars

\* CreateRelationship from db.Create to the answer (part_000, lines 103-104):
\* the error of the Create is not looked at; the row belongs to no contact.
CreateRelationshipCreate ==
    \E fails \in BOOLEAN :
        LET h == "CreateRelationship"
        IN  /\ At(h, "create")
            /\ ~fails => Len(relationships) < MaxRelationships
            /\ Proceed(h, After("create", fails), Status(200))
            /\ relationships' =
                   IF fails THEN relationships
                   ELSE Append(relationships, NewRelationship(NilID, req[h].body))
            /\ UNCHANGED <<contacts, reminders, nextContactID, nextReminderID>>
            /\ UNCHANGED mainVars

----------------------------------------------------------------------------
(* controllers: CreateReminder, UpdateReminder, DeleteReminder *)

\* The request bodies: one that does not bind, and bodies that bind, with or
\* without a ContactID of their own.
ReminderBodies ==
    { [binds |-> FALSE, ContactID |-> NilID, Message |-> "call"] } \cup
    { [binds |-> TRUE, ContactID |-> id, Message |-> "call"] : id \in {NilID, 2} }

\* The :id parameters of the requests that name a reminder.
ReminderIDParams == { q_1, q_1x }

\* The status CreateReminder answers with before its db.Create (lines 12-34), 0
\* when it gets there.
CreateReminderStatus(idParam, body, fails) ==
    LET contact == FirstByText(contacts, idParam, fails)
    IN  IF contact.result = "not found" THEN 404
        ELSE IF contact.result = "error" THEN 500
        ELSE IF ~body.binds THEN 400
        ELSE 0

\* reminder.ContactID = &contact.ID (line 37): the row db.Create writes.
NewReminder(id, contactID, body) ==
    [ID |-> id, ContactID |-> contactID, Message |-> body.Message]

\* CreateReminder up to the binding of the body (lines 12-34): db.First with
\* the text of :id.
CreateReminder ==
    \E idParam \in ContactIDParams, body \in ReminderBodies, fails \in BOOLEAN :
        LET h      == "CreateReminder"
            status == CreateReminderStatus(idParam, body, fails)
            r      == [id |-> idParam, body |-> body]
        IN  /\ Accepts(h)
            /\ IF status # 0
               THEN Serve(h, r, After("first", fails), Status(status))
               ELSE Serve(h, r,
                          [at |-> "create",
                           contact |-> FirstByText(contacts, idParam, FALSE).row],
                          NoResponse)
            /\ UNCHANGED dbVars
            /\ UNCHANGED mainVars

\* CreateReminder from line 37 to the answer (lines 36-46).
CreateReminderCreate ==
    \E fails \in BOOLEAN :
        LET h == "CreateReminder"
        IN  /\ At(h, "create")
            /\ ~fails => nextReminderID <= MaxReminders
            /\ Proceed(h, After("create", fails), Status(IF fails THEN 500 ELSE 200))
            /\ reminders' =
                   IF fails THEN reminders
                   ELSE Append(reminders,
                               NewReminder(nextReminderID, locals[h].contact.ID, req[h].body))
            /\ nextReminderID' = IF fails THEN nextReminderID ELSE nextReminderID + 1
            /\ UNCHANGED <<contacts, relationships, nextContactID>>
            /\ UNCHANGED mainVars

\* The reminder read with the body bound over it: a ContactID of the body
\* replaces the stored one.
BoundReminder(reminder, body) ==
    [ID        |-> reminder.ID,
     ContactID |-> IF body.ContactID # NilID THEN body.ContactID ELSE reminder.ContactID,
     Message   |-> body.Message]

\* UpdateReminder up to the binding (lines 61-73).
UpdateReminder ==
    \E idParam \in ReminderIDParams, body \in ReminderBodies, fails \in BOOLEAN :
        LET h        == "UpdateReminder"
            reminder == FirstByText(reminders, idParam, fails)
            r        == [id |-> idParam, body |-> body]
        IN  /\ Accepts(h)
            /\ IF reminder.result # "found"
               THEN Serve(h, r, After("first", fails), Status(404))
               ELSE IF ~body.binds
               THEN Serve(h, r, Done, Status(400))
               ELSE Serve(h, r,
                          [at |-> "save", reminder |-> BoundReminder(reminder.row, body)],
                          NoResponse)
            /\ UNCHANGED dbVars
            /\ UNCHANGED mainVars

\* UpdateReminder from db.Save to the answer (lines 75-76): the error of the
\* Save is not looked at.
UpdateReminderSave ==
    \E fails \in BOOLEAN :
        LET h == "UpdateReminder"
        IN  /\ At(h, "save")
            /\ Proceed(h, After("save", fails), Status(200))
            /\ reminders' = IF fails THEN reminders
                            ELSE Upsert(reminders, locals[h].reminder)
            /\ UNCHANGED <<contacts, relationships, nextContactID, nextReminderID>>
            /\ UNCHANGED mainVars

\* DeleteReminder (lines 79-88).
DeleteReminder ==
    \E idParam \in ReminderIDParams, fails \in BOOLEAN :
        LET h == "DeleteReminder"
        IN  /\ Accepts(h)
            /\ Serve(h, [id |-> idParam], After("delete", fails),
                     Status(IF DeleteRows(reminders, idParam, fails).err THEN 404 ELSE 200))
            /\ reminders' = DeleteRows(reminders, idParam, fails).rows
            /\ UNCHANGED <<contacts, relationships, nextContactID, nextReminderID>>
            /\ UNCHANGED mainVars

----------------------------------------------------------------------------
(* The handlers served together *)

\* The listings, with the creation and the deletion of contacts.
Next ==
    \/ GetContacts \/ GetContactsCount
    \/ GetAllContacts \/ GetAllContactsCount
    \/ CreateContact \/ DeleteContact
    \/ Return

\* The handlers that write table contacts.
ContactNext ==
    \/ CreateContact \/ UpdateContact \/ UpdateContactSave \/ DeleteContact
    \/ AddProfilePictureToContact \/ AddProfilePictureSave
    \/ Return

\* The handlers that write table relationships, with the creation and the
\* deletion of contacts.
CrudNext ==
    \/ AddRelationshipToContact \/ AddRelationshipRelated \/ AddRelationshipSave
    \/ CreateRelationship \/ CreateRelationshipCreate
    \/ CreateContact \/ DeleteContact
    \/ Return

\* The handlers that write table reminders, with the creation and the deletion
\* of contacts.
ReminderNext ==
    \/ CreateReminder \/ CreateReminderCreate
    \/ UpdateReminder \/ UpdateReminderSave \/ DeleteReminder
    \/ CreateContact \/ DeleteContact
    \/ Return

----------------------------------------------------------------------------
(* Initial states *)

Init ==
    /\ pc = "start"
    /\ dbOpens \in BOOLEAN
    /\ jobScheduled = FALSE
    /\ schedulerRunning = FALSE
    /\ httpListening = FALSE
    /\ today = NoDate
    /\ mails = << >>
    /\ contacts \in SeedTables
    /\ relationships = << >>
    /\ reminders = << >>
    /\ nextContactID = Len(contacts) + 1
    /\ nextReminderID = 1
    /\ req = [h \in Handlers |-> Idle]
    /\ locals = [h \in Handlers |-> NoLocals]
    /\ resp = [h \in Handlers |-> NoResponse]

\* The program as main.go runs it.  Every step of main is taken when it can be,
\* and the scheduler keeps firing the job.
MainSpec == Init /\ [][MainNext]_vars /\ WF_vars(MainNext)

\* The states in which the handlers start to serve: the database has been
\* opened, and its tables are empty as db.AutoMigrate makes them in a new
\* file; the contacts come by CreateContact.
InitOpened == Init /\ dbOpens = TRUE /\ contacts = << >>

\* The listing handlers serving requests on an opened database while contacts
\* are created and deleted.
Spec == InitOpened /\ [][Next]_vars

\* The handlers of contacts serving requests on an opened database.
ContactSpec == InitOpened /\ [][ContactNext]_vars

\* The handlers of relationships and contacts serving requests on an opened
\* database.
CrudSpec == InitOpened /\ [][CrudNext]_vars

\* The handlers of reminders, with the creation and deletion of contacts,
\* serving requests on an opened database.
ReminderSpec == InitOpened /\ [][ReminderNext]_vars
----------------------------------------------------------------------------
(* C1 *)

\* C1: started with a database it can open, the program eventually has the
\* birthday job scheduled with the scheduler running, and eventually has the
\* HTTP server listening.
C1_SchedulerAndServerStart ==
    dbOpens => (<>(jobScheduled /\ schedulerRunning) /\ <>httpListening)

----------------------------------------------------------------------------
(* C2 *)

SameDay(a, b) == a.m = b.m /\ a.d = b.d

MailsTo(id) == Cardinality({ i \in 1..Len(mails) : mails[i].to = id })

\* C2: a run of the birthday job sends exactly one mail for every stored contact
\* whose birthday has the month and day of the current date, and none for the
\* other contacts.
C2_OneMailPerBirthdayContact ==
    today # NoDate =>
        \A i \in 1..Len(contacts) :
            MailsTo(contacts[i].ID) =
                (IF SameDay(contacts[i].birthday, today) THEN 1 ELSE 0)

----------------------------------------------------------------------------
(* The listing claims *)

\* Whether name is one of the comma-separated items of text: it starts at the
\* start of the text or after a comma, and ends at the end or before a comma.
IsListItem(text, name) ==
    \E i \in 1..(Len(text) + 1) :
        /\ i = 1 \/ text[i - 1] = ","
        /\ i + Len(name) - 1 <= Len(text)
        /\ SubSeq(text, i, i + Len(name) - 1) = name
        /\ i + Len(name) > Len(text) \/ text[i + Len(name)] = ","

q_password == <<"p","a","s","s","w","o","r","d">>
q_bogus    == <<"b","o","g","u","s">>

\* The request GetContacts is serving, and its query and rows.
listReq   == req["GetContacts"]
listQuery == locals["GetContacts"]

\* A listing handler has built its query; GetContacts has, and has answered
\* 200.
ListedBy(h) == req[h] # Idle
Listed == ListedBy("GetContacts")
ListedOK == resp["GetContacts"].status = 200

\* The step in which a listing handler runs its Find with success, and the
\* step in which it answers 200.
Finds(h) ==
    /\ req[h] = Idle
    /\ req[h]' # Idle
    /\ locals[h]'.failed = "none"
Answers(h) ==
    /\ resp[h] = NoResponse
    /\ resp[h]'.status = 200

----------------------------------------------------------------------------
(* C3 *)

\* C3: whatever the fields parameter, the columns GetContacts passes to Select
\* are among allowedFields and "ID", and every allowed name that the parameter
\* lists is passed.
C3_SelectWithinWhitelist ==
    Listed =>
        /\ Range(listQuery.selectedFields) \subseteq Range(allowedFields) \cup {s_ID}
        /\ \A i \in 1..Len(allowedFields) :
               IsListItem(Query(listReq.fields), allowedFields[i])
                   => Contains(listQuery.selectedFields, allowedFields[i])

\* A request listing an allowed and an unknown name: the first is selected, the
\* second is not.
C3_Witness ==
    /\ Listed
    /\ IsListItem(Query(listReq.fields), q_password)
    /\ IsListItem(Query(listReq.fields), s_firstname)
    /\ Contains(listQuery.selectedFields, s_firstname)
    /\ ~Contains(listQuery.selectedFields, q_password)

----------------------------------------------------------------------------
(* C4 *)

\* The names a listing handler knows as relationships.
KnownRelationships(h) ==
    IF h = "GetContacts" THEN RelationshipKeys ELSE AllRelationshipKeys

\* The relation of a contact that a known name stands for.
RelationOf(rel) == CHOOSE field \in ContactRelations : Lower(field) = rel

\* C4: when the database does not fail, the relationships a listing preloads
\* are exactly those of the names its handler knows among the comma-separated
\* items of the includes parameter; without the parameter nothing is
\* preloaded.
C4_PreloadsAreKnownIncludes ==
    \A h \in Listings :
        (ListedBy(h) /\ locals[h].failed # "find") =>
            /\ locals[h].preloaded =
                   { RelationOf(rel) : rel \in
                         { k \in KnownRelationships(h) :
                               IsListItem(Query(req[h].includes), k) } }
            /\ req[h].includes = Absent => locals[h].preloaded = {}

----------------------------------------------------------------------------
(* C5 *)

\* The columns of a row of this model.
ContactColumns == { s_ID, s_firstname, s_lastname, s_nickname, s_birthday, s_circles }

\* C5: without the fields parameter every column of a contact, the ID
\* included, is selected; with it, the ID is among the selected columns.
C5_AllFieldsOrID ==
    \A h \in Listings :
        ListedBy(h) =>
            /\ req[h].fields = Absent =>
                   \A col \in ContactColumns : Contains(locals[h].selectedFields, col)
            /\ req[h].fields # Absent => Contains(locals[h].selectedFields, s_ID)

----------------------------------------------------------------------------
(* C6 *)

\* The rows left of a sequence after the first (page-1)*limit are skipped and
\* at most limit are kept, for a page >= 1 and a limit in 1..100 given as ints;
\* (page-1)*limit is the product of the two numbers, and a page of 2^16 or more
\* skips every row of these tables.
PageOfRows(rows, page, limit) ==
    LET l    == SmallValue(limit)
        skip == IF IsSmall(page) THEN Min((SmallValue(page) - 1) * l, Len(rows))
                ELSE Len(rows)
    IN  SubSeq(rows, skip + 1, Min(Len(rows), skip + l))

\* C6: the effective page is at least 1 and the effective limit within 1..100;
\* a missing, non-numeric or negative page becomes 1, a missing or too large
\* limit becomes 25; the response carries both, and the rows the query reads
\* are the at most limit rows that follow the first (page-1)*limit matching
\* rows.
C6_Pagination ==
    [][ \A h \in Listings :
            /\ Answers(h) =>
                /\ ~IntLess(resp[h]'.page, IntOf(1))
                /\ ~IntLess(resp[h]'.limit, IntOf(1))
                /\ ~IntLess(IntOf(100), resp[h]'.limit)
                /\ req[h].page \in {Absent, q_1x, q_minus1} => resp[h]'.page = IntOf(1)
                /\ req[h].limit \in {Absent, q_101} => resp[h]'.limit = IntOf(25)
                /\ resp[h]'.page = locals[h].page /\ resp[h]'.limit = locals[h].limit
                /\ Len(resp[h]'.contacts) <= SmallValue(resp[h]'.limit)
            /\ Finds(h) =>
                locals[h]'.found =
                    PageOfRows(Matching(contacts, locals[h]'.searchTerm, locals[h]'.circle),
                               locals[h]'.page, locals[h]'.limit)
      ]_vars

----------------------------------------------------------------------------
(* C7 *)

\* C7: the total of a successful listing is the number of contacts stored when
\* the handler counts them.
C7_TotalIsStoredCount ==
    [][ \A h \in Listings : Answers(h) => resp[h]'.total = Len(contacts) ]_vars

----------------------------------------------------------------------------
(* C8 *)

\* C8: when the Find or the Count of a listing fails, the answer is 500.
C8_QueryFailureIs500 ==
    \A h \in Listings :
        (ListedBy(h) /\ locals[h].failed # "none") => resp[h].status = 500

----------------------------------------------------------------------------
(* C9 *)

\* C9: with a circle parameter, every contact returned has that very tag among
\* its circles.
C9_CircleIsATag ==
    (ListedOK /\ listReq.circle # Absent) =>
        \A i \in 1..Len(listQuery.found) :
            Contains(listQuery.found[i].circles, listReq.circle)

----------------------------------------------------------------------------
(* C10 *)

\* The key the :id parameter of a request names, when it is a number.
URLContact(r) == SmallValue(Atoi(r.id).n)

\* A contact the request names is not stored: the one of the URL, or the one
\* the bound body names.
ContactMissing(r) ==
    /\ Atoi(r.id).err = "nil"
    /\ \/ ~HasContact(URLContact(r))
       \/ /\ r.body.binds
          /\ r.body.ContactID # NilID
          /\ ~HasContact(r.body.ContactID)

\* The step in which a handler answers.
Responds(h) == resp[h] = NoResponse /\ resp[h]' # NoResponse

\* C10: AddRelationshipToContact stores a relationship only if the contact of
\* the URL exists and the contact the body names, if any, exists; when either
\* is missing and no statement fails it answers 404 and leaves contacts and
\* relationships as they were; when it answers 200 the relationship is stored
\* for the URL's contact.
C10_RelationshipNeedsContacts ==
    [][ Responds("AddRelationshipToContact") =>
            LET r      == req["AddRelationshipToContact"]'
                answer == resp["AddRelationshipToContact"]'
                failed == locals["AddRelationshipToContact"]'.failed
            IN  /\ relationships' # relationships =>
                       /\ Atoi(r.id).err = "nil"
                       /\ HasContact(URLContact(r))
                       /\ r.body.ContactID # NilID => HasContact(r.body.ContactID)
                /\ (ContactMissing(r) /\ failed = "none") =>
                       /\ answer.status = 404
                       /\ relationships' = relationships
                       /\ contacts' = contacts
                /\ answer.status = 200 =>
                       relationships' =
                           Append(relationships, NewRelationship(URLContact(r), r.body))
      ]_vars

----------------------------------------------------------------------------
(* C11 *)

\* Whether a contact has the id that the :id parameter of the request gives.
HasURLContact(r) ==
    Atoi(r.id).err = "nil" /\ IsSmall(Atoi(r.id).n) /\ HasContact(SmallValue(Atoi(r.id).n))

\* C11: a reminder that CreateReminder stores has, as its ContactID, the id of
\* the URL, which is the ID of a stored contact, whatever ContactID the body
\* carries; when no contact has the id of the URL the answer is 404, when the
\* body does not bind it is 400, and then no reminder is stored.
C11_ReminderTiedToURLContact ==
    [][ Responds("CreateReminder") =>
            LET r      == req["CreateReminder"]'
                answer == resp["CreateReminder"]'
                failed == locals["CreateReminder"]'.failed
            IN  /\ reminders' # reminders =>
                       /\ HasURLContact(r)
                       /\ reminders' =
                              Append(reminders,
                                     NewReminder(nextReminderID, URLContact(r), r.body))
                /\ (~HasURLContact(r) /\ failed = "none") =>
                       answer.status = 404 /\ reminders' = reminders
                /\ (HasURLContact(r) /\ failed = "none" /\ ~r.body.binds) =>
                       answer.status = 400 /\ reminders' = reminders
      ]_vars

----------------------------------------------------------------------------
(* C14 *)

\* C14: DeleteContact answers 404 when no contact has the id of the URL; it
\* answers 200 only when a contact had that id and is removed; the contacts
\* with other ids stay as they were.
C14_DeleteAnswers ==
    [][ Responds("DeleteContact") =>
            LET r      == req["DeleteContact"]'
                answer == resp["DeleteContact"]'
                failed == locals["DeleteContact"]'.failed
                others(rows) ==
                    SelectSeq(rows, LAMBDA c :
                        ~(HasURLContact(r) /\ c.ID = URLContact(r)))
            IN  /\ (~HasURLContact(r) /\ failed = "none") => answer.status = 404
                /\ answer.status = 200 =>
                       /\ HasURLContact(r)
                       /\ \A i \in 1..Len(contacts') : contacts'[i].ID # URLContact(r)
                /\ others(contacts') = others(contacts)
      ]_vars

----------------------------------------------------------------------------
(* C12 *)

\* t occurs in text, character for character.
ContainsText(text, t) ==
    \E i \in 1..(Len(text) - Len(t) + 1) : SubSeq(text, i, i + Len(t) - 1) = t

\* A name of the contact contains t.
NameContains(c, t) ==
    \/ ContainsText(c.firstname, t)
    \/ ContainsText(c.lastname, t)
    \/ ContainsText(c.nickname, t)

\* The stored contacts a search for t selects, together with the circle filter
\* of the request when one is given.
SearchedRows(t, circle) ==
    SelectSeq(contacts, LAMBDA c :
        /\ NameContains(c, t)
        /\ (circle # EmptyStr => CircleWhere(c, circle)))

\* C12: a listing with a non-empty search parameter t returns, within the page,
\* exactly the contacts whose firstname, lastname or nickname contains t as a
\* literal substring, and with a circle parameter as well only those that pass
\* both filters.
C12_SearchIsLiteralSubstring ==
    [][ (Finds("GetContacts") /\ listReq'.search # Absent) =>
            listQuery'.found =
                LimitOffset(SearchedRows(listReq'.search, Query(listReq'.circle)),
                            listQuery'.limit, listQuery'.offset)
      ]_vars

----------------------------------------------------------------------------
(* C13 *)

\* The parameter is absent or a text strconv.Atoi accepts.
ParsesAsInt(raw, def) == Atoi(DefaultQuery(raw, def)).err = "nil"

\* (page-1)*limit of an effective page and limit as a number of IntBytes bytes
\* and the carry out of them: the product without wrapping.
ProductOf(page, limit) == MulAdd(IntSub(page, IntOf(1)), SmallValue(limit), 0)

\* C13: for a page and a limit that parse as ints, the offset passed to the
\* query is not negative and is the number (page-1)*limit of the effective page
\* and limit; the multiplication does not wrap.
C13_OffsetIsProduct ==
    (Listed /\ ParsesAsInt(listReq.page, q_1) /\ ParsesAsInt(listReq.limit, q_25)) =>
        LET product == ProductOf(listQuery.page, listQuery.limit)
        IN  /\ product[IntBytes + 1] = 0
            /\ ~IsNegative(listQuery.offset)
            /\ listQuery.offset = SubSeq(product, 1, IntBytes)

============================================================================
